---- MODULE Spec2Model ----
(***************************************************************************)
(* A model of the sermo LLM client (src/src/lib.rs): the provider          *)
(* registry, the request builder, the transport adapter, the response      *)
(* extractor and the embedded-JSON extractor.                              *)
(*                                                                         *)
(* Text is a sequence of one-character strings, so that scanning,          *)
(* matching and substitution work on characters as the code does.          *)
(***************************************************************************)
EXTENDS Integers, Sequences, FiniteSets, TLC

VARIABLES
    pc,       \* "ready" before the call, "done" after it returned
    profile,  \* the LlmProfile the call is made on (self)
    input,    \* the text argument: the message, the text to scan, the slug
    call,     \* the operation called, with its non-text arguments
    wire,     \* what the call put on and took off the wire
    result    \* the value the call returned

vars == <<pc, profile, input, call, wire, result>>

----------------------------------------------------------------------------
(* Characters *)

Whitespace == {" ", "\n", "\t", "\r"}
Digits == {"0", "1", "2", "3", "4", "5", "6", "7", "8", "9"}
LowerLetters == {"a", "b", "c", "d", "e", "f", "g", "h", "i", "j", "k", "l", "m", "n", "o", "p", "q", "r", "s", "t", "u", "v", "w", "x", "y", "z"}
UpperLetters == {"A", "B", "C", "D", "E", "F", "G", "H", "I", "J", "K", "L", "M", "N", "O", "P", "Q", "R", "S", "T", "U", "V", "W", "X", "Y", "Z"}
SimpleEscapes == {"\"", "\\", "/", "b", "f", "n", "r", "t"}
HexDigits == Digits \cup {"a", "b", "c", "d", "e", "f", "A", "B", "C", "D", "E", "F"}

\* The character at 1-based position i, "EOF" outside the text.
At(s, i) == IF i >= 1 /\ i <= Len(s) THEN s[i] ELSE "EOF"

----------------------------------------------------------------------------
(* serde_json::from_str: the JSON grammar.  A Parse operator takes the     *)
(* position of the first character and returns the position after the      *)
(* last one, 0 when the text does not parse there.                         *)

RECURSIVE SkipWs(_, _)
SkipWs(s, i) == IF At(s, i) \in Whitespace THEN SkipWs(s, i + 1) ELSE i

RECURSIVE DigitsEnd(_, _)
DigitsEnd(s, i) == IF At(s, i) \in Digits THEN DigitsEnd(s, i + 1) ELSE i

RECURSIVE StringEnd(_, _)
StringEnd(s, j) ==
    LET c == At(s, j) IN
    IF c = "EOF" \/ c \in {"\n", "\t", "\r"} THEN 0
    ELSE IF c = "\"" THEN j + 1
    ELSE IF c = "\\" THEN
        IF At(s, j + 1) \in SimpleEscapes THEN StringEnd(s, j + 2)
        ELSE IF At(s, j + 1) = "u" /\ \A k \in 2..5 : At(s, j + k) \in HexDigits
             THEN StringEnd(s, j + 6)
        ELSE 0
    ELSE StringEnd(s, j + 1)

ParseString(s, i) == IF At(s, i) = "\"" THEN StringEnd(s, i + 1) ELSE 0

ParseNumber(s, i) ==
    LET a == IF At(s, i) = "-" THEN i + 1 ELSE i
        b == IF At(s, a) = "0" THEN a + 1 ELSE DigitsEnd(s, a)
        c == IF At(s, b) = "." THEN DigitsEnd(s, b + 1) ELSE b
        d == IF At(s, c) \in {"e", "E"}
             THEN (IF At(s, c + 1) \in {"+", "-"} THEN c + 2 ELSE c + 1)
             ELSE c
        e == IF d > c THEN DigitsEnd(s, d) ELSE c
    IN  IF b = a THEN 0
        ELSE IF At(s, b) = "." /\ c = b + 1 THEN 0
        ELSE IF d > c /\ e = d THEN 0
        ELSE e

ParseLiteral(s, i, w) ==
    IF \A k \in 1..Len(w) : At(s, i + k - 1) = w[k] THEN i + Len(w) ELSE 0

RECURSIVE ParseValue(_, _)
RECURSIVE ParseElems(_, _)
RECURSIVE ParseMembers(_, _)

ParseValue(s, i0) ==
    LET i == SkipWs(s, i0)
        c == At(s, i)
    IN  IF c = "{" THEN
            (IF At(s, SkipWs(s, i + 1)) = "}" THEN SkipWs(s, i + 1) + 1
             ELSE ParseMembers(s, i + 1))
        ELSE IF c = "[" THEN
            (IF At(s, SkipWs(s, i + 1)) = "]" THEN SkipWs(s, i + 1) + 1
             ELSE ParseElems(s, i + 1))
        ELSE IF c = "\"" THEN ParseString(s, i)
        ELSE IF c = "t" THEN ParseLiteral(s, i, <<"t", "r", "u", "e">>)
        ELSE IF c = "f" THEN ParseLiteral(s, i, <<"f", "a", "l", "s", "e">>)
        ELSE IF c = "n" THEN ParseLiteral(s, i, <<"n", "u", "l", "l">>)
        ELSE IF c = "-" \/ c \in Digits THEN ParseNumber(s, i)
        ELSE 0

ParseElems(s, j) ==
    LET e == ParseValue(s, j)
        k == SkipWs(s, e)
    IN  IF e = 0 THEN 0
        ELSE IF At(s, k) = "," THEN ParseElems(s, k + 1)
        ELSE IF At(s, k) = "]" THEN k + 1
        ELSE 0

ParseMembers(s, j) ==
    LET a == ParseString(s, SkipWs(s, j))
        b == SkipWs(s, a)
        e == IF a # 0 /\ At(s, b) = ":" THEN ParseValue(s, b + 1) ELSE 0
        k == SkipWs(s, e)
    IN  IF e = 0 THEN 0
        ELSE IF At(s, k) = "," THEN ParseMembers(s, k + 1)
        ELSE IF At(s, k) = "}" THEN k + 1
        ELSE 0

WellFormed(s) ==
    LET e == ParseValue(s, 1)
    IN  e # 0 /\ SkipWs(s, e) = Len(s) + 1


\* The text with the whitespace outside its string literals dropped: the
\* value a parse keeps does not depend on the layout.
RECURSIVE Compact(_, _, _)
Compact(s, i, inString) ==
    IF i > Len(s) THEN <<>>
    ELSE IF inString /\ s[i] = "\\" /\ i < Len(s)
        THEN <<s[i], s[i + 1]>> \o Compact(s, i + 2, inString)
    ELSE IF s[i] = "\"" THEN <<s[i]>> \o Compact(s, i + 1, ~inString)
    ELSE IF ~inString /\ s[i] \in Whitespace THEN Compact(s, i + 1, inString)
    ELSE <<s[i]>> \o Compact(s, i + 1, inString)

\* The character an escape sequence \c stands for.
Unescaped(c) ==
    CASE c = "n" -> "\n"
      [] c = "t" -> "\t"
      [] c = "r" -> "\r"
      [] c = "b" -> "BS"
      [] c = "f" -> "\f"
      [] OTHER -> c

\* The content of a string literal whose first content character is at i.
\* (A backspace is written "BS" and a \uXXXX escape is kept undecoded: TLA+
\* strings cannot hold them.)
RECURSIVE Unescape(_, _)
Unescape(s, i) ==
    IF i > Len(s) \/ s[i] = "\"" THEN <<>>
    ELSE IF s[i] = "\\" /\ At(s, i + 1) = "u"
        THEN SubSeq(s, i, i + 5) \o Unescape(s, i + 6)
    ELSE IF s[i] = "\\" THEN <<Unescaped(At(s, i + 1))>> \o Unescape(s, i + 2)
    ELSE <<s[i]>> \o Unescape(s, i + 1)

\* The target types T the extractors are instantiated at.
Types == {"Value", "Map", "Vec", "String", "bool", "f64"}

\* Whether a well-formed JSON text whose first character is c is a T.
Accepts(T, c) ==
    CASE T = "Value"  -> TRUE
      [] T = "Map"    -> c = "{"
      [] T = "Vec"    -> c = "["
      [] T = "String" -> c = "\""
      [] T = "bool"   -> c \in {"t", "f"}
      [] T = "f64"    -> c = "-" \/ c \in Digits

Absent == [some |-> FALSE, value |-> <<>>]
Present(v) == [some |-> TRUE, value |-> v]

\* serde_json::from_str::<T>(s).ok()
FromStrOk(T, s) ==
    LET first == SkipWs(s, 1)
    IN  IF WellFormed(s) /\ Accepts(T, At(s, first))
        THEN Present(IF T = "String" THEN Unescape(s, first + 1)
                     ELSE Compact(s, 1, FALSE))
        ELSE Absent

----------------------------------------------------------------------------
(* LlmProfile::extract_json *)

\* input.find(c): the 0-based index of the first c, -1 for None.
RECURSIVE FindFrom(_, _, _)
FindFrom(s, c, i) ==
    IF i > Len(s) THEN -1
    ELSE IF s[i] = c THEN i - 1
    ELSE FindFrom(s, c, i + 1)

\* Find, were it to search from the right (rfind).
RECURSIVE FindLastFrom(_, _, _)
FindLastFrom(s, c, i) ==
    IF i < 1 THEN -1
    ELSE IF s[i] = c THEN i - 1
    ELSE FindLastFrom(s, c, i - 1)

FindLast(s, c) == FindLastFrom(s, c, Len(s))

Find(s, c) == FindFrom(s, c, 1)

\* ScanDepth, were it to stop at the first closing delimiter whatever the depth.
RECURSIVE ScanFirstClose(_, _, _, _, _, _)
ScanFirstClose(s, start_idx, i, depth, start_char, end_char) ==
    LET c == At(s, start_idx + i + 1) IN
    IF c = "EOF" THEN [depth |-> 1, end_idx |-> 0]
    ELSE IF c = end_char THEN [depth |-> 0, end_idx |-> start_idx + i + 1]
    ELSE ScanFirstClose(s, start_idx, i + 1, depth, start_char, end_char)

\* The for loop over input[start_idx..].char_indices(): i is the offset
\* from start_idx, the result is the loop's final (depth, end_idx).
RECURSIVE ScanDepth(_, _, _, _, _, _)
ScanDepth(s, start_idx, i, depth, start_char, end_char) ==
    LET c == At(s, start_idx + i + 1) IN
    IF c = "EOF" THEN [depth |-> depth, end_idx |-> 0]
    ELSE IF c = start_char
        THEN ScanDepth(s, start_idx, i + 1, depth + 1, start_char, end_char)
    ELSE IF c = end_char
        THEN (IF depth - 1 = 0
              THEN [depth |-> 0, end_idx |-> start_idx + i + 1]
              ELSE ScanDepth(s, start_idx, i + 1, depth - 1, start_char, end_char))
    ELSE ScanDepth(s, start_idx, i + 1, depth, start_char, end_char)

extract_json(T, s, is_object) ==
    LET start_char == IF is_object THEN "{" ELSE "["
        end_char == IF is_object THEN "}" ELSE "]"
        start_idx == Find(s, start_char)
        scan == ScanDepth(s, start_idx, 0, 0, start_char, end_char)
    IN  IF start_idx = -1 THEN Absent
        ELSE IF scan.end_idx = 0 \/ scan.depth # 0 THEN Absent
        ELSE FromStrOk(T, SubSeq(s, start_idx + 1, scan.end_idx))

----------------------------------------------------------------------------
(* LlmProfile::extract_json_flexible *)

\* \w of the regex crate, on the characters of the model.
WordChar(c) == c \in Digits \cup LowerLetters \cup UpperLetters \cup {"_"}

\* \b before position i: exactly one of the two neighbours is a word character.
WordBoundary(s, i) == WordChar(At(s, i - 1)) # WordChar(At(s, i))

NoMatch == [found |-> FALSE, from |-> 0, to |-> 0]

\* ([^"\\]|\\[\s\S])*" from position j: the position after the closing quote.
RECURSIVE QuotedEnd(_, _)
QuotedEnd(s, j) ==
    LET c == At(s, j) IN
    IF c = "EOF" THEN 0
    ELSE IF c = "\"" THEN j + 1
    ELSE IF c = "\\" THEN (IF j + 1 <= Len(s) THEN QuotedEnd(s, j + 2) ELSE 0)
    ELSE QuotedEnd(s, j + 1)

\* re_string.find(input): the leftmost match of "([^"\\]|\\[\s\S])*".
RECURSIVE FindStringFrom(_, _)
FindStringFrom(s, i) ==
    IF i > Len(s) THEN NoMatch
    ELSE IF s[i] = "\"" /\ QuotedEnd(s, i + 1) # 0
        THEN [found |-> TRUE, from |-> i, to |-> QuotedEnd(s, i + 1) - 1]
    ELSE FindStringFrom(s, i + 1)

re_string_find(s) == FindStringFrom(s, 1)

\* [eE][+-]?\d+ at position p: the position after it, 0 when it does not match.
ExponentEnd(s, p) ==
    LET q == IF At(s, p + 1) \in {"+", "-"} THEN p + 2 ELSE p + 1
    IN  IF At(s, p) \in {"e", "E"} /\ DigitsEnd(s, q) > q
        THEN DigitsEnd(s, q) ELSE 0

\* The first of the ends, in the order the engine prefers them, that is
\* followed by \b.
RECURSIVE FirstBounded(_, _, _)
FirstBounded(s, ends, k) ==
    IF k > Len(ends) THEN 0
    ELSE IF ends[k] # 0 /\ WordBoundary(s, ends[k]) THEN ends[k]
    ELSE FirstBounded(s, ends, k + 1)

\* -?\d+(\.\d+)?([eE][+-]?\d+)?\b at position i (greedy, giving up the
\* optional groups from the right): the position after the match, or 0.
NumberEnd(s, i) ==
    LET a == IF At(s, i) = "-" THEN i + 1 ELSE i
        p1 == DigitsEnd(s, a)
        hasFrac == At(s, p1) = "." /\ DigitsEnd(s, p1 + 1) > p1 + 1
        p2 == DigitsEnd(s, p1 + 1)
    IN  IF p1 = a THEN 0
        ELSE IF hasFrac THEN FirstBounded(s, <<ExponentEnd(s, p2), p2, p1>>, 1)
        ELSE FirstBounded(s, <<ExponentEnd(s, p1), p1>>, 1)

\* A keyword alternative w followed by \b at position i.
WordEnd(s, i, w) ==
    IF (\A k \in 1..Len(w) : At(s, i + k - 1) = w[k]) /\ WordBoundary(s, i + Len(w))
    THEN i + Len(w) ELSE 0

\* \b(true|false|null|-?\d+(\.\d+)?([eE][+-]?\d+)?)\b at position i.
ScalarEnd(s, i) ==
    IF ~WordBoundary(s, i) THEN 0
    ELSE IF WordEnd(s, i, <<"t", "r", "u", "e">>) # 0
        THEN WordEnd(s, i, <<"t", "r", "u", "e">>)
    ELSE IF WordEnd(s, i, <<"f", "a", "l", "s", "e">>) # 0
        THEN WordEnd(s, i, <<"f", "a", "l", "s", "e">>)
    ELSE IF WordEnd(s, i, <<"n", "u", "l", "l">>) # 0
        THEN WordEnd(s, i, <<"n", "u", "l", "l">>)
    ELSE NumberEnd(s, i)

\* re_scalar.find(input): the leftmost match.
RECURSIVE FindScalarFrom(_, _)
FindScalarFrom(s, i) ==
    IF i > Len(s) THEN NoMatch
    ELSE IF ScalarEnd(s, i) # 0
        THEN [found |-> TRUE, from |-> i, to |-> ScalarEnd(s, i) - 1]
    ELSE FindScalarFrom(s, i + 1)

re_scalar_find(s) == FindScalarFrom(s, 1)

\* serde_json::from_str::<T>(m.as_str()) on a regex match.
FromMatch(T, s, m) ==
    IF m.found THEN FromStrOk(T, SubSeq(s, m.from, m.to)) ELSE Absent

\* The value returned, and the number of extractors the call went through.
Tried(r, n) == [some |-> r.some, value |-> r.value, tried |-> n]

\* extract_json_flexible, were it to try the bare scalar before the string.
extract_json_flexible_scalar_first(T, s) ==
    LET object == extract_json(T, s, TRUE)
        array == extract_json(T, s, FALSE)
        string == FromMatch(T, s, re_string_find(s))
        scalar == FromMatch(T, s, re_scalar_find(s))
    IN  IF object.some THEN Tried(object, 1)
        ELSE IF array.some THEN Tried(array, 2)
        ELSE IF scalar.some THEN Tried(scalar, 4)
        ELSE IF string.some THEN Tried(string, 3)
        ELSE Tried(Absent, 4)

extract_json_flexible(T, s) ==
    LET object == extract_json(T, s, TRUE)
        array == extract_json(T, s, FALSE)
        string == FromMatch(T, s, re_string_find(s))
        scalar == FromMatch(T, s, re_scalar_find(s))
    IN  IF object.some THEN Tried(object, 1)
        ELSE IF array.some THEN Tried(array, 2)
        ELSE IF string.some THEN Tried(string, 3)
        ELSE IF scalar.some THEN Tried(scalar, 4)
        ELSE Tried(Absent, 4)

----------------------------------------------------------------------------
(* LlmProvider *)

Providers == {"ollama", "openai", "anthropic", "google", "xai", "mistral",
              "deepseek", "groq", "together", "other"}

\* to_slug
to_slug(provider) ==
    CASE provider = "ollama" -> <<"o", "l", "l", "a", "m", "a">>
      [] provider = "openai" -> <<"o", "p", "e", "n", "a", "i">>
      [] provider = "anthropic" -> <<"a", "n", "t", "h", "r", "o", "p", "i", "c">>
      [] provider = "google" -> <<"g", "o", "o", "g", "l", "e">>
      [] provider = "xai" -> <<"x", "a", "i">>
      [] provider = "mistral" -> <<"m", "i", "s", "t", "r", "a", "l">>
      [] provider = "deepseek" -> <<"d", "e", "e", "p", "s", "e", "e", "k">>
      [] provider = "groq" -> <<"g", "r", "o", "q">>
      [] provider = "together" -> <<"t", "o", "g", "e", "t", "h", "e", "r">>
      [] OTHER -> <<"o", "t", "h", "e", "r">>

\* The sign U+212A, the one character outside ASCII whose lowercase is an
\* ASCII letter of a slug; TLA+ strings are ASCII, so it has a name here.
KelvinSign == "U+212A"

UpperSeq == <<"A", "B", "C", "D", "E", "F", "G", "H", "I", "J", "K", "L", "M", "N", "O", "P", "Q", "R", "S", "T", "U", "V", "W", "X", "Y", "Z">>
LowerSeq == <<"a", "b", "c", "d", "e", "f", "g", "h", "i", "j", "k", "l", "m", "n", "o", "p", "q", "r", "s", "t", "u", "v", "w", "x", "y", "z">>

\* char::to_lowercase
ToLowerChar(c) ==
    IF c \in UpperLetters THEN LowerSeq[CHOOSE k \in 1..26 : UpperSeq[k] = c]
    ELSE IF c = KelvinSign THEN "k"
    ELSE c

\* str::to_lowercase
to_lowercase(s) == [k \in 1..Len(s) |-> ToLowerChar(s[k])]

\* LlmProvider::from_str: the match on slug.to_lowercase()
MatchSlug(lowered) ==
    CASE lowered = <<"o", "l", "l", "a", "m", "a">> -> "ollama"
      [] lowered = <<"o", "p", "e", "n", "a", "i">> -> "openai"
      [] lowered = <<"a", "n", "t", "h", "r", "o", "p", "i", "c">> -> "anthropic"
      [] lowered = <<"g", "o", "o", "g", "l", "e">> -> "google"
      [] lowered = <<"x", "a", "i">> -> "xai"
      [] lowered = <<"m", "i", "s", "t", "r", "a", "l">> -> "mistral"
      [] lowered = <<"d", "e", "e", "p", "s", "e", "e", "k">> -> "deepseek"
      [] lowered = <<"g", "r", "o", "q">> -> "groq"
      [] lowered = <<"t", "o", "g", "e", "t", "h", "e", "r">> -> "together"
      [] OTHER -> "other"

\* provider_from_str, were it to match the slug as given.
provider_from_str_exact(slug) == MatchSlug(slug)

provider_from_str(slug) == MatchSlug(to_lowercase(slug))

\* The two placeholders of a completion URL.
PhModel == <<"~", "m", "o", "d", "e", "l", "~">>
PhApiKey == <<"~", "a", "p", "i", "_", "k", "e", "y", "~">>

\* get_completion_url.  An element of more than one character stands for
\* that run of characters of the URL; such a run holds no "~", so no
\* placeholder begins, ends or lies in it.
get_completion_url(provider) ==
    CASE provider = "ollama" -> <<"http://localhost:11434/api/chat">>
      [] provider = "openai" -> <<"https://api.openai.com/v1/chat/completions">>
      [] provider = "anthropic" -> <<"https://api.anthropic.com/v1/messages">>
      [] provider = "xai" -> <<"https://api.x.ai/v1/chat/completions">>
      [] provider = "mistral" -> <<"https://api.mixtral.ai/v1/chat/completions">>
      [] provider = "deepseek" -> <<"https://api.deepseek.com/v1/chat/completions">>
      [] provider = "groq" -> <<"https://api.groq.com/openai/v1/chat/completions">>
      [] provider = "together" -> <<"https://api.together.xyz/v1/chat/completions">>
      [] provider = "other" -> <<"http://localhost:8000/v1/chat/completions">>
      [] provider = "google" ->
            <<"https://generativelanguage.googleapis.com/v1beta/models/">> \o PhModel
            \o <<":generateContent?key=">> \o PhApiKey

\* LlmProfile::from_str
profile_from_str(provider_slug, model_name, api_key, temperature, max_tokens) ==
    [provider |-> provider_from_str(provider_slug), api_key |-> api_key,
     model_name |-> model_name, temperature |-> temperature,
     max_tokens |-> max_tokens, api_url |-> <<>>]

----------------------------------------------------------------------------
(* The request builder: send_single, send_ollama *)

\* Option<f32>, Option<usize>: a present value is carried as its decimal text.
None == [some |-> FALSE, v |-> <<>>]
Some(v) == [some |-> TRUE, v |-> v]

\* serde_json's escaping of a string's characters.
RECURSIVE EscapeJson(_)
EscapeJson(s) ==
    IF s = <<>> THEN <<>>
    ELSE (CASE Head(s) = "\"" -> <<"\\", "\"">>
            [] Head(s) = "\\" -> <<"\\", "\\">>
            [] Head(s) = "\n" -> <<"\\", "n">>
            [] OTHER -> <<Head(s)>>) \o EscapeJson(Tail(s))

\* Serialize for String, for Option<_> and for Vec<ChatMessage> holding
\* the one message { role: "user", content }.
SerString(s) == <<"\"">> \o EscapeJson(s) \o <<"\"">>
SerOption(o) == IF o.some THEN o.v ELSE <<"null">>
SerMessages(content) ==
    <<"[{\"role\":\"user\",\"content\":">> \o SerString(content) \o <<"}]">>

Field(k, v) == [key |-> k, value |-> v]

\* serde_json::to_string(&ChatRequest { .. }): the derived Serialize writes
\* every field of the struct, in the order of its declaration.
SerChatRequest(self, message) ==
    << Field("model", SerString(self.model_name)),
       Field("messages", SerMessages(message)),
       Field("temperature", SerOption(self.temperature)),
       Field("max_tokens", SerOption(self.max_tokens)) >>

\* serde_json::to_string(&ChatRequest_Ollama { .. })
SerChatRequestOllama(self, message) ==
    << Field("model", SerString(self.model_name)),
       Field("messages", SerMessages(message)),
       Field("stream", <<"false">>),
       Field("temperature", SerOption(self.temperature)),
       Field("max_tokens", SerOption(self.max_tokens)) >>

----------------------------------------------------------------------------
(* The transport adapter and the response extractor: send *)

\* io::Error::new(kind, message); an Ok carries the completion.
Ok(content) == [ok |-> TRUE, kind |-> "Ok", text |-> content, code |-> 0]
Err(kind, text) == [ok |-> FALSE, kind |-> kind, text |-> text, code |-> 0]

\* format!("HTTP error: {}", res.status_code())
HttpErr(status) ==
    [ok |-> FALSE, kind |-> "Other", text |-> <<"HTTP error: ">>, code |-> status]

\* str::replace(pat, by) from position i on: the matches of pat, left to
\* right and not overlapping, each replaced by `by`.
RECURSIVE ReplaceFrom(_, _, _, _)
ReplaceFrom(s, pat, by, i) ==
    IF i > Len(s) THEN <<>>
    ELSE IF i + Len(pat) - 1 <= Len(s) /\ SubSeq(s, i, i + Len(pat) - 1) = pat
        THEN by \o ReplaceFrom(s, pat, by, i + Len(pat))
    ELSE <<s[i]>> \o ReplaceFrom(s, pat, by, i + 1)

Replace(s, pat, by) == ReplaceFrom(s, pat, by, 1)

\* The URL send posts to.
ResolveUrl(self) ==
    LET url == IF self.api_url = <<>> THEN get_completion_url(self.provider)
               ELSE self.api_url
    IN  Replace(Replace(url, PhModel, self.model_name), PhApiKey, self.api_key)

\* A response body, as far as the two response shapes read it: whether it
\* is JSON at all, its "message" member and its "choices" member.  A member
\* is absent, of a wrong type ("invalid") or as the shape wants it ("ok").
MessageOf(content) == [tag |-> "ok", content |-> content]
NoMessage == [tag |-> "absent", content |-> <<>>]
BadMessage == [tag |-> "invalid", content |-> <<>>]

\* serde_json::from_str::<ChatChoice>(&res.body()): the derived Deserialize
\* wants the member "message" and ignores the others.
DeChatChoice(body) ==
    IF ~body.json THEN [ok |-> FALSE, error |-> <<"expected value">>]
    ELSE IF body.message.tag = "absent"
        THEN [ok |-> FALSE, error |-> <<"missing field message">>]
    ELSE IF body.message.tag = "invalid"
        THEN [ok |-> FALSE, error |-> <<"invalid type">>]
    ELSE [ok |-> TRUE, error |-> <<>>]

\* serde_json::from_str::<ChatResponse>(&res.body())
DeChatResponse(body) ==
    IF ~body.json THEN [ok |-> FALSE, error |-> <<"expected value">>]
    ELSE IF body.choices.tag = "absent"
        THEN [ok |-> FALSE, error |-> <<"missing field choices">>]
    ELSE IF body.choices.tag = "invalid"
        THEN [ok |-> FALSE, error |-> <<"invalid type">>]
    ELSE IF \E k \in 1..Len(body.choices.items) : body.choices.items[k].tag = "absent"
        THEN [ok |-> FALSE, error |-> <<"missing field message">>]
    ELSE IF \E k \in 1..Len(body.choices.items) : body.choices.items[k].tag = "invalid"
        THEN [ok |-> FALSE, error |-> <<"invalid type">>]
    ELSE [ok |-> TRUE, error |-> <<>>]

\* StatusOk, were it to accept every 2xx status.
StatusAny2xx(status) == status \in 200..299

\* res.status_code() != 200, negated
StatusOk(status) == status = 200

\* DeError, were it to drop the parser's message for the one of the empty list.
DeErrorAsNoChoices(error) == Err("Other", <<"No choices in response">>)

\* .map_err(|e| io::Error::new(io::ErrorKind::InvalidData, e.to_string()))
DeError(error) == Err("InvalidData", error)

\* FirstChoice, were it to take the last choice.
LastChoice(choices) == choices[Len(choices)]

\* json_res.choices[0]
FirstChoice(choices) == choices[1]

\* What send leaves behind: the request it posted, the response it got,
\* the shape it parsed the body into, and the value it returned.
Sent(url, payload, res, parsed_as, returned) ==
    [posted |-> TRUE, url |-> url, payload |-> payload, response |-> res,
     parsed_as |-> parsed_as, returned |-> returned]

\* LlmProfile::send, given the outcome res of http.send(&req)
send(self, json_str, res) ==
    LET url == ResolveUrl(self)
        body == res.body
    IN  IF ~res.sent THEN Sent(url, json_str, res, "none", Err("Other", res.error))
        ELSE IF ~StatusOk(res.status)
            THEN Sent(url, json_str, res, "none", HttpErr(res.status))
        ELSE IF self.provider = "ollama" THEN
            (IF ~DeChatChoice(body).ok
             THEN Sent(url, json_str, res, "ChatChoice", DeError(DeChatChoice(body).error))
             ELSE Sent(url, json_str, res, "ChatChoice", Ok(body.message.content)))
        ELSE
            (IF ~DeChatResponse(body).ok
             THEN Sent(url, json_str, res, "ChatResponse",
                       DeError(DeChatResponse(body).error))
             ELSE IF body.choices.items = <<>>
             THEN Sent(url, json_str, res, "ChatResponse",
                       Err("Other", <<"No choices in response">>))
             ELSE Sent(url, json_str, res, "ChatResponse",
                       Ok(FirstChoice(body.choices.items).content)))

send_ollama(self, message, res) == send(self, SerChatRequestOllama(self, message), res)

send_single(self, message, res) ==
    IF self.provider = "ollama" THEN send_ollama(self, message, res)
    ELSE send(self, SerChatRequest(self, message), res)

----------------------------------------------------------------------------
(* The calls of the embedded-JSON extractor on bounded texts *)

\* The pieces the scanned texts are made of.
Frags == { <<"{">>, <<"}">>, <<"[">>, <<"]">>, <<"\"">>, <<"\\">>, <<",">>,
           <<"1">>, <<"-">>, <<".">>, <<"e">>, <<" ">>,
           <<"t", "r", "u", "e">>,
           <<"{", "}">>,
           <<"[", "]">>,
           <<"\"", "a", "\"", ":">>,
           <<"\"", "]", "\"">>,
           <<"\"", "{", "\"">> }

MaxFrags == 3

RECURSIVE TextsUpTo(_)
TextsUpTo(n) ==
    IF n = 0 THEN {<<>>}
    ELSE LET P == TextsUpTo(n - 1) IN P \cup {t \o f : t \in P, f \in Frags}

Texts == TextsUpTo(MaxFrags)

\* LlmProfile::default()
DefaultProfile ==
    [provider |-> "ollama", api_key |-> <<>>, model_name |-> <<>>,
     temperature |-> None, max_tokens |-> None, api_url |-> <<>>]

NoCall == [op |-> "none", ty |-> "none", is_object |-> FALSE]
NoWire == [posted |-> FALSE]
NoResult == Absent

InitExtract ==
    /\ pc = "ready"
    /\ profile = DefaultProfile
    /\ input \in Texts
    /\ call = NoCall
    /\ wire = NoWire
    /\ result = NoResult

ExtractJson ==
    /\ pc = "ready"
    /\ \E T \in Types, is_object \in BOOLEAN :
        /\ call' = [op |-> "extract_json", ty |-> T, is_object |-> is_object]
        /\ result' = extract_json(T, input, is_object)
    /\ pc' = "done"
    /\ UNCHANGED <<profile, input, wire>>

ExtractJsonFlexible ==
    /\ pc = "ready"
    /\ \E T \in Types :
        /\ call' = [op |-> "extract_json_flexible", ty |-> T, is_object |-> FALSE]
        /\ result' = extract_json_flexible(T, input)
    /\ pc' = "done"
    /\ UNCHANGED <<profile, input, wire>>

NextExtract == ExtractJson \/ ExtractJsonFlexible

SpecExtract == InitExtract /\ [][NextExtract]_vars

----------------------------------------------------------------------------
(* The send calls on bounded profiles, messages and responses *)

Temperatures == {None, Some(<<"0", ".", "7">>)}
TokenLimits == {None, Some(<<"1", "0", "0">>)}
ModelNames == {<<"g">>, <<"g", "2">>, PhApiKey}
ApiKeys == {<<"K">>, PhModel}
ApiUrls == { <<>>,
             <<"http://h/">> \o PhModel,
             <<"http://h/">> \o PhModel \o <<"?k=">> \o PhApiKey,
             <<"http://h/">> \o PhApiKey \o <<"/">> \o PhModel \o <<"/">> \o PhModel }
UserMessages == {<<"h", "\"", "i">>}

Profiles ==
    [provider : Providers, api_key : ApiKeys, model_name : ModelNames,
     temperature : Temperatures, max_tokens : TokenLimits, api_url : ApiUrls]

\* The most choices a response body lists.
MaxChoices == 2

ChoiceItems == {MessageOf(<<"h", "i">>), MessageOf(<<"y", "o">>), BadMessage}

RECURSIVE ChoiceLists(_)
ChoiceLists(n) ==
    IF n = 0 THEN {<<>>}
    ELSE LET P == ChoiceLists(n - 1)
         IN  P \cup {Append(l, c) : l \in {q \in P : Len(q) = n - 1}, c \in ChoiceItems}

NoChoices == [tag |-> "absent", items |-> <<>>]
BadChoices == [tag |-> "invalid", items |-> <<>>]

NotJson == [json |-> FALSE, message |-> NoMessage, choices |-> NoChoices]

Bodies ==
    {NotJson} \cup
    [json : {TRUE},
     message : {NoMessage, BadMessage, MessageOf(<<"t", "o", "p">>)},
     choices : {NoChoices, BadChoices}
               \cup {[tag |-> "ok", items |-> l] : l \in ChoiceLists(MaxChoices)}]

Statuses == {200, 201, 500}

TransportFailure ==
    [sent |-> FALSE, error |-> <<"connection refused">>, status |-> 0, body |-> NotJson]

\* The outcomes of http.send(&req)
Responses ==
    {TransportFailure} \cup [sent : {TRUE}, error : {<<>>}, status : Statuses, body : Bodies]

InitSend ==
    /\ pc = "ready"
    /\ profile \in Profiles
    /\ input \in UserMessages
    /\ call = NoCall
    /\ wire = NoWire
    /\ result = NoResult

SendSingle ==
    /\ pc = "ready"
    /\ \E res \in Responses :
        /\ wire' = send_single(profile, input, res)
        /\ result' = send_single(profile, input, res).returned
    /\ call' = [op |-> "send_single", ty |-> "none", is_object |-> FALSE]
    /\ pc' = "done"
    /\ UNCHANGED <<profile, input>>

SendOllama ==
    /\ pc = "ready"
    /\ \E res \in Responses :
        /\ wire' = send_ollama(profile, input, res)
        /\ result' = send_ollama(profile, input, res).returned
    /\ call' = [op |-> "send_ollama", ty |-> "none", is_object |-> FALSE]
    /\ pc' = "done"
    /\ UNCHANGED <<profile, input>>

NextSend == SendSingle \/ SendOllama

SpecSend == InitSend /\ [][NextSend]_vars

----------------------------------------------------------------------------
(* The provider lookups on bounded slugs *)

\* The uppercase forms of a character: its ASCII capital and, for k, the
\* Kelvin sign.
Uppers(c) ==
    (IF c \in LowerLetters THEN {UpperSeq[CHOOSE k \in 1..26 : LowerSeq[k] = c]} ELSE {})
    \cup (IF c = "k" THEN {KelvinSign} ELSE {})

\* s is w up to the case of its letters.
CaseVariant(s, w) ==
    /\ Len(s) = Len(w)
    /\ \A k \in 1..Len(w) : s[k] = w[k] \/ s[k] \in Uppers(w[k])

SlugWords == {to_slug(P) : P \in Providers} \cup {<<"b", "o", "g", "u", "s">>}

\* The spellings of w in every mix of cases.
RECURSIVE Recased(_)
Recased(w) ==
    IF w = <<>> THEN {<<>>}
    ELSE {<<c>> \o r : c \in {Head(w)} \cup Uppers(Head(w)), r \in Recased(Tail(w))}

NearMisses(w) ==
    {w \o <<" ">>, <<" ">> \o w, w \o <<"s">>, SubSeq(w, 1, Len(w) - 1),
     SubSeq(w, 2, Len(w)), <<"_">> \o w}

SlugInputs ==
    {<<>>} \cup UNION {Recased(w) : w \in SlugWords}
           \cup UNION {NearMisses(w) : w \in SlugWords}

InitSlug ==
    /\ pc = "ready"
    /\ profile = DefaultProfile
    /\ input \in SlugInputs
    /\ call = NoCall
    /\ wire = NoWire
    /\ result = NoResult

\* provider.to_slug(), whose slug the next call is given
ToSlug ==
    /\ pc = "ready"
    /\ call = NoCall
    /\ \E P \in Providers :
        /\ input' = to_slug(P)
        /\ call' = [op |-> "to_slug", ty |-> P, is_object |-> FALSE]
    /\ UNCHANGED <<pc, profile, wire, result>>

\* LlmProfile::from_str(input, ..)
FromStr ==
    /\ pc = "ready"
    /\ \E m \in ModelNames, k \in ApiKeys, t \in Temperatures, n \in TokenLimits :
        profile' = profile_from_str(input, m, k, t, n)
    /\ call' = [op |-> "from_str", ty |-> call.ty, is_object |-> FALSE]
    /\ pc' = "done"
    /\ UNCHANGED <<input, wire, result>>

NextSlug == ToSlug \/ FromStr

SpecSlug == InitSlug /\ [][NextSlug]_vars

----------------------------------------------------------------------------
(* Properties of send *)

Returned == pc = "done" /\ wire.posted

\* The request shape a payload has: the Ollama shape has the stream member.
HasKey(payload, k) == \E n \in 1..Len(payload) : payload[n].key = k
RequestShape(payload) == IF HasKey(payload, "stream") THEN "Ollama" ELSE "Standard"

\* C1: in every send_single or send_ollama call the request has the Ollama
\* shape exactly when the provider is ollama, the body is parsed into the
\* single-message shape exactly when the provider is ollama, and so the
\* request shape of one provider never goes with the response shape of the
\* other.
ShapesFollowProvider ==
    Returned =>
        /\ (RequestShape(wire.payload) = "Ollama") <=> (profile.provider = "ollama")
        /\ wire.parsed_as # "none" =>
            /\ (wire.parsed_as = "ChatChoice") <=> (profile.provider = "ollama")
            /\ (wire.parsed_as = "ChatChoice") <=> (RequestShape(wire.payload) = "Ollama")

\* C2: the payload has a temperature member only when the profile has a
\* temperature, a max_tokens member only when it has a max_tokens, and no
\* member of the two is null.
OptionalFieldsOmitted ==
    Returned =>
        /\ HasKey(wire.payload, "temperature") => profile.temperature.some
        /\ HasKey(wire.payload, "max_tokens") => profile.max_tokens.some
        /\ \A n \in 1..Len(wire.payload) :
            wire.payload[n].key \in {"temperature", "max_tokens"}
                => wire.payload[n].value # <<"null">>

\* C6: a response whose status is not 200 ends the call with the HTTP-status
\* error that carries the status, and its body is not parsed.
Non200IsHttpError ==
    (Returned /\ wire.response.sent /\ wire.response.status # 200) =>
        /\ result = [ok |-> FALSE, kind |-> "Other", text |-> <<"HTTP error: ">>,
                     code |-> wire.response.status]
        /\ wire.parsed_as = "none"

\* A 2xx status other than 200, with a body the provider's shape would
\* accept, ends in the HTTP-status error.
Non200Witness ==
    /\ Returned /\ wire.response.sent /\ wire.response.status = 201
    /\ profile.provider = "openai"
    /\ wire.response.body.json /\ wire.response.body.choices.tag = "ok"
    /\ Len(wire.response.body.choices.items) = 1
    /\ wire.response.body.choices.items[1].tag = "ok"
    /\ ~result.ok /\ result.code = 201

\* The body has the shape the provider's responses have.
IsString(m) == m.tag = "ok"
MatchesSingleMessage(body) == body.json /\ IsString(body.message)
MatchesChoicesList(body) ==
    /\ body.json
    /\ body.choices.tag = "ok"
    /\ \A k \in 1..Len(body.choices.items) : IsString(body.choices.items[k])

Got200 == Returned /\ wire.response.sent /\ wire.response.status = 200

\* C7: on a 200 response whose body has the expected shape, an ollama
\* profile gets the content of the message; any other profile gets the
\* content of the first choice, and the "no choices" error when the list
\* is empty.
CompletionIsFirstContent ==
    Got200 =>
        LET body == wire.response.body IN
        /\ (profile.provider = "ollama" /\ MatchesSingleMessage(body)) =>
            result = [ok |-> TRUE, kind |-> "Ok", text |-> body.message.content, code |-> 0]
        /\ (profile.provider # "ollama" /\ MatchesChoicesList(body)) =>
            IF Len(body.choices.items) = 0
            THEN /\ ~result.ok
                 /\ result.kind = "Other"
                 /\ result.text = <<"No choices in response">>
            ELSE result = [ok |-> TRUE, kind |-> "Ok",
                           text |-> body.choices.items[1].content, code |-> 0]

\* Two choices with different contents: the first one is returned.
FirstOfTwoWitness ==
    /\ Got200 /\ profile.provider # "ollama"
    /\ MatchesChoicesList(wire.response.body)
    /\ Len(wire.response.body.choices.items) = 2
    /\ wire.response.body.choices.items[1].content
         # wire.response.body.choices.items[2].content
    /\ result.ok /\ result.text = wire.response.body.choices.items[1].content

\* The two failures of the response extractor, read off the response.
ShapeMismatch ==
    /\ Got200
    /\ IF profile.provider = "ollama" THEN ~MatchesSingleMessage(wire.response.body)
       ELSE ~MatchesChoicesList(wire.response.body)
EmptyChoices ==
    /\ Got200 /\ profile.provider # "ollama"
    /\ MatchesChoicesList(wire.response.body)
    /\ wire.response.body.choices.items = <<>>

\* The message serde_json gives for a body that does not have the shape.
ParserMessage(provider, body) ==
    IF provider = "ollama" THEN DeChatChoice(body).error ELSE DeChatResponse(body).error

\* C8: a body that does not deserialize gives an InvalidData error with the
\* parser's message, an empty choices list gives the Other error "No
\* choices in response", and no body of the first kind gives the error of
\* the second.
FailureKindsDistinct ==
    /\ ShapeMismatch =>
        /\ ~result.ok
        /\ result.kind = "InvalidData"
        /\ result.text = ParserMessage(profile.provider, wire.response.body)
        /\ result # [ok |-> FALSE, kind |-> "Other",
                     text |-> <<"No choices in response">>, code |-> 0]
    /\ EmptyChoices =>
        /\ result = [ok |-> FALSE, kind |-> "Other",
                     text |-> <<"No choices in response">>, code |-> 0]
        /\ \A b \in Bodies :
            ~MatchesChoicesList(b) =>
                send(profile, wire.payload, [wire.response EXCEPT !.body = b]).returned
                    # result

\* A choices-list provider is given a body without the choices member.
ShapeMismatchWitness ==
    /\ ShapeMismatch /\ profile.provider = "openai"
    /\ wire.response.body.json
    /\ wire.response.body.choices.tag = "absent"
    /\ result.kind = "InvalidData"

\* The base URL with each placeholder occurring in it replaced, the text
\* put in its place not being looked at again.
RECURSIVE SubstituteBoth(_, _, _, _)
SubstituteBoth(base, i, model, key) ==
    IF i > Len(base) THEN <<>>
    ELSE IF i + 6 <= Len(base) /\ SubSeq(base, i, i + 6) = PhModel
        THEN model \o SubstituteBoth(base, i + 7, model, key)
    ELSE IF i + 8 <= Len(base) /\ SubSeq(base, i, i + 8) = PhApiKey
        THEN key \o SubstituteBoth(base, i + 9, model, key)
    ELSE <<base[i]>> \o SubstituteBoth(base, i + 1, model, key)

BaseUrl(self) ==
    IF self.api_url = <<>> THEN get_completion_url(self.provider) ELSE self.api_url

\* C9: the URL posted to is the base URL with every ~model~ in the base URL
\* replaced by the model name and every ~api_key~ in the base URL replaced
\* by the API key, whatever the model name and the key contain.
UrlSubstitutesBaseOnly ==
    Returned =>
        wire.url = SubstituteBoth(BaseUrl(profile), 1, profile.model_name, profile.api_key)

----------------------------------------------------------------------------
(* Properties of the embedded-JSON extractor *)

Extracted == pc = "done" /\ call.op = "extract_json"
OpenChar == IF call.is_object THEN "{" ELSE "["
CloseChar == IF call.is_object THEN "}" ELSE "]"

\* The substrings of the text that begin with the opening delimiter and
\* deserialize as the requested type.
WellFormedAt ==
    {ij \in (1..Len(input)) \X (1..Len(input)) :
        /\ ij[1] <= ij[2]
        /\ input[ij[1]] = OpenChar
        /\ FromStrOk(call.ty, SubSeq(input, ij[1], ij[2])).some}

FirstWellFormed ==
    CHOOSE ij \in WellFormedAt : \A kl \in WellFormedAt : ij[1] <= kl[1]

\* Openings minus closings among the characters a..b, quoted or not.
Count(c, a, b) == Cardinality({k \in a..b : input[k] = c})
Depth(a, b) == Count(OpenChar, a, b) - Count(CloseChar, a, b)

Openings == {k \in 1..Len(input) : input[k] = OpenChar}
FirstOpening == CHOOSE k \in Openings : \A j \in Openings : k <= j
Closings == {j \in FirstOpening..Len(input) : Depth(FirstOpening, j) = 0}
FirstClosing == CHOOSE j \in Closings : \A k \in Closings : j <= k

\* C3 as stated: whenever the text holds a well-formed value of the kind,
\* extract_json returns the first of them.
ReturnsFirstWellFormed ==
    (Extracted /\ WellFormedAt # {}) =>
        LET first == FirstWellFormed
        IN  result = FromStrOk(call.ty, SubSeq(input, first[1], first[2]))

\* C3 as amended: extract_json returns the first well-formed value of the
\* kind when that value begins at the first opening delimiter of the text
\* and ends where the depth first returns to zero, and nothing otherwise; a
\* value it returns is the first well-formed one of the text.
ReturnsFirstWellFormedAtFirstOpening ==
    Extracted =>
        LET first == FirstWellFormed
            closings == Closings
        IN  IF /\ WellFormedAt # {}
               /\ first[1] = FirstOpening
               /\ closings # {}
               /\ \A j \in closings : first[2] <= j
            THEN result = FromStrOk(call.ty, SubSeq(input, first[1], first[2]))
            ELSE result = Absent

\* A value is returned from a text that has text before it and a second
\* opening delimiter.
FirstOpeningWitness ==
    /\ Extracted /\ result.some
    /\ FirstOpening > 1
    /\ Cardinality(Openings) > 1

\* C4: the candidate runs from the first opening delimiter to the first
\* position after it where openings minus closings, quoted ones counted,
\* is zero; the result is absent exactly when there is no opening
\* delimiter, or no such position, or the candidate does not deserialize.
CandidateIsNaiveBalance ==
    Extracted =>
        LET closings == Closings
            candidate == SubSeq(input, FirstOpening, FirstClosing)
        IN  /\ (Openings # {} /\ closings # {}) =>
                result = FromStrOk(call.ty, candidate)
            /\ ~result.some <=>
                \/ Openings = {}
                \/ closings = {}
                \/ ~FromStrOk(call.ty, candidate).some

\* A well-formed array whose string holds a closing bracket: the candidate
\* ends at the quoted bracket and nothing is returned.
QuotedDelimiterWitness ==
    /\ Extracted /\ ~call.is_object /\ call.ty = "Value"
    /\ WellFormed(input) /\ At(input, 1) = "["
    /\ Closings # {} /\ FirstClosing < Len(input)
    /\ ~result.some

FlexibleDone == pc = "done" /\ call.op = "extract_json_flexible"

\* The four attempts, in the order object, array, string, scalar.
Attempts ==
    << extract_json(call.ty, input, TRUE),
       extract_json(call.ty, input, FALSE),
       FromMatch(call.ty, input, re_string_find(input)),
       FromMatch(call.ty, input, re_scalar_find(input)) >>

\* C5: extract_json_flexible returns the result of the first of the four
\* attempts that deserializes, goes no further than that attempt, and
\* returns nothing exactly when all four fail.
FlexibleIsFirstSuccess ==
    FlexibleDone =>
        LET attempts == Attempts
            successes == {k \in 1..4 : attempts[k].some}
            first == CHOOSE k \in successes : \A j \in successes : k <= j
        IN  IF successes = {} THEN ~result.some /\ result.tried = 4
            ELSE /\ result.some
                 /\ result.value = attempts[first].value
                 /\ result.tried = first

\* The string pattern matches but its match is no T, and the scalar is.
ScalarAfterStringWitness ==
    /\ FlexibleDone /\ call.ty = "bool"
    /\ re_string_find(input).found
    /\ Find(input, "[") # -1
    /\ result.some /\ result.tried = 4

----------------------------------------------------------------------------
(* Properties of the provider lookup *)

Named == Providers \ {"other"}

\* C10: from_str gives back the provider of a slug that to_slug made, gives
\* P for every spelling of P's slug in any mix of cases, gives other for
\* every other string, and always gives a provider.
FromSlugRoundTrips ==
    (pc = "done" /\ call.op = "from_str") =>
        /\ profile.provider \in Providers
        /\ call.ty \in Named => profile.provider = call.ty
        /\ \A P \in Named : CaseVariant(input, to_slug(P)) => profile.provider = P
        /\ (\A P \in Named : ~CaseVariant(input, to_slug(P)))
                => profile.provider = "other"

\* A slug written in mixed case is recognised.
MixedCaseWitness ==
    /\ pc = "done" /\ call.op = "from_str"
    /\ \E k \in 1..Len(input) : input[k] \in UpperLetters
    /\ \E k \in 1..Len(input) : input[k] \in LowerLetters
    /\ profile.provider = "anthropic"

====
